---- MODULE Spec2Model ----
(***************************************************************************)
(* A model of textual's ColorSystem (src/textual/design.py): the theme     *)
(* fields with their lazy-parsing descriptors, the shade-name enumeration  *)
(* and the palette generator.                                              *)
(*                                                                         *)
(* Representation.                                                         *)
(*   - A color string "#rrggbb" is the tuple of its six hexadecimal        *)
(*     digits; a field is a tagged option [set, str] (None is set=FALSE).  *)
(*   - A Color is a record [r, g, b] of integers; every color of this      *)
(*     slice is opaque, so the alpha channel is left out.                  *)
(*   - A float (luminosity_spread, text_alpha, a blend factor) is an exact *)
(*     rational <<numerator, denominator>>, denominator > 0; the rounding  *)
(*     error of binary floating point is not modelled.                     *)
(*   - The Color value type (textual/color.py) is not part of the shown    *)
(*     sources; its operations are modelled from the contract of spec      *)
(*     section 3.                                                          *)
(***************************************************************************)
EXTENDS Integers, Sequences, FiniteSets, TLC

VARIABLES fields, pc, args, idx, resolved, colors, raised

vars == <<fields, pc, args, idx, resolved, colors, raised>>

----------------------------------------------------------------------------
(* Program constants (design.py 12-17).                                    *)

NUMBER_OF_SHADES == 3

DEFAULT_DARK_BACKGROUND == <<0, 0, 0, 0, 0, 0>>

DEFAULT_DARK_SURFACE == <<1, 2, 1, 2, 1, 2>>

DEFAULT_LIGHT_BACKGROUND == <<15, 5, 15, 5, 15, 5>>

DEFAULT_LIGHT_SURFACE == <<14, 15, 14, 15, 14, 15>>

COLOR_NAMES ==
    << "primary", "secondary", "background", "surface", "warning",
       "error", "success", "accent1", "accent2" >>

(* The order in which generate reads the fields (design.py 130-144).       *)
READ_ORDER ==
    << "primary", "secondary", "warning", "error", "success",
       "accent1", "accent2", "background", "surface" >>

(* The names of the COLORS list of generate (design.py 166-176).           *)
COLORS ==
    << "primary", "secondary", "background", "surface", "warning",
       "error", "success", "accent1", "accent2" >>

DARK_SHADES == {"primary", "secondary"}

OPTIONAL_FIELDS ==
    {"secondary", "warning", "error", "success", "accent1", "accent2",
     "surface", "background"}

----------------------------------------------------------------------------
(* Rational arithmetic for the float parameters.                           *)

Abs(x) == IF x < 0 THEN -x ELSE x

TruncDiv(a, b) == IF a >= 0 THEN a \div b ELSE -((-a) \div b)

RScale(n, x) == <<n * x[1], x[2]>>

RAdd(x, y) == <<x[1] * y[2] + y[1] * x[2], x[2] * y[2]>>

RDivide(x, y) == <<x[1] * y[2], x[2] * y[1]>>

----------------------------------------------------------------------------
(* The Color value type, from the contract of spec section 3.              *)

WHITE == [r |-> 255, g |-> 255, b |-> 255]

BLACK == [r |-> 0, g |-> 0, b |-> 0]

Clamp(v, lo, hi) == IF v < lo THEN lo ELSE IF v > hi THEN hi ELSE v

InGamut(c) == c.r \in 0..255 /\ c.g \in 0..255 /\ c.b \in 0..255

(* Color.parse: "#rrggbb" to channels; fails on a malformed string.        *)
WellFormed(str) == Len(str) = 6 /\ \A i \in 1..6 : str[i] \in 0..15

parse(str) ==
    IF WellFormed(str)
    THEN [ok |-> TRUE,
          color |-> [r |-> 16 * str[1] + str[2],
                     g |-> 16 * str[3] + str[4],
                     b |-> 16 * str[5] + str[6]]]
    ELSE [ok |-> FALSE, color |-> BLACK]

(* Color.hex: two hexadecimal digits a channel, most significant first.    *)
(* A channel outside 0..255 does not fit two digits: its leading "digit"   *)
(* falls outside 0..15.                                                    *)
hex(c) ==
    << c.r \div 16, c.r % 16, c.g \div 16, c.g % 16, c.b \div 16, c.b % 16 >>

(* Color.css of an opaque color, the string form __set__ stores.           *)
css(c) == hex(c)

(* Color.clamped.                                                          *)
clamped(c) ==
    [r |-> Clamp(c.r, 0, 255), g |-> Clamp(c.g, 0, 255), b |-> Clamp(c.b, 0, 255)]

(* Color.blend: linear interpolation toward destination by factor, each    *)
(* channel truncated to an integer; not clamped.                           *)
blend(c, destination, factor) ==
    IF factor[1] = 0 THEN c
    ELSE IF factor[1] = factor[2] THEN destination
    ELSE [r |-> TruncDiv(c.r * factor[2] + (destination.r - c.r) * factor[1], factor[2]),
          g |-> TruncDiv(c.g * factor[2] + (destination.g - c.g) * factor[1], factor[2]),
          b |-> TruncDiv(c.b * factor[2] + (destination.b - c.b) * factor[1], factor[2])]

(* Color.lighten: the lightness moved by a signed share of the full range; *)
(* a negative amount darkens. The result is a displayable color (generate  *)
(* clamps the blend branch only).                                          *)
lighten(c, amount) ==
    LET d == TruncDiv(255 * amount[1], amount[2])
    IN  clamped([r |-> c.r + d, g |-> c.g + d, b |-> c.b + d])

Max2(a, b) == IF a >= b THEN a ELSE b

Min2(a, b) == IF a <= b THEN a ELSE b

(* Lightness (HSL, times two): brightest plus darkest channel.             *)
lightness(c) == Max2(c.r, Max2(c.g, c.b)) + Min2(c.r, Min2(c.g, c.b))

brightness(c) == 299 * c.r + 587 * c.g + 114 * c.b

(* Color.get_contrast_text: the color blended toward white or toward       *)
(* black by alpha, whichever contrasts more with the color itself.         *)
get_contrast_text(c, alpha) ==
    LET white == blend(c, WHITE, alpha)
        black == blend(c, BLACK, alpha)
        white_contrast == Abs(brightness(c) - brightness(white))
        black_contrast == Abs(brightness(c) - brightness(black))
    IN  IF white_contrast > black_contrast THEN white ELSE black

----------------------------------------------------------------------------
(* The bounded inputs: the strings a designer passes, the parameters of a  *)
(* generate call.                                                          *)

Unset == [set |-> FALSE, str |-> <<>>]

Str(digits) == [set |-> TRUE, str |-> digits]

(* "#005EAG": not a color. The other strings: "#005EA8", "#000000",        *)
(* "#FFFFFF"; "#F59402"; "#FFA000"; "#558B2F"; "#C62828"; "#202020".       *)
Malformed == <<0, 0, 5, 14, 10, 16>>

PrimaryStrings ==
    { <<0, 0, 5, 14, 10, 8>>, <<0, 0, 0, 0, 0, 0>>,
      <<15, 15, 15, 15, 15, 15>>, Malformed }

FieldStrings(name) ==
    CASE name = "secondary"  -> { <<15, 5, 9, 4, 0, 2>>, Malformed }
      [] name = "warning"    -> { <<15, 15, 10, 0, 0, 0>> }
      [] name = "success"    -> { <<5, 5, 8, 11, 2, 15>> }
      [] name = "accent2"    -> { <<12, 6, 2, 8, 2, 8>> }
      [] name = "background" -> { <<2, 0, 2, 0, 2, 0>>, <<15, 15, 15, 15, 15, 15>> }
      [] name = "surface"    -> { Malformed }
      [] OTHER               -> {}

FieldValues(name) == {Unset} \cup { Str(d) : d \in FieldStrings(name) }

Spreads == { <<0, 1>>, <<15, 100>>, <<1, 2>>, <<1, 1>> }

Alphas == { <<0, 1>>, <<9, 10>>, <<1, 1>> }

NoArgs == [dark |-> FALSE, luminosity_spread |-> <<15, 100>>, text_alpha |-> <<9, 10>>]

NoColors == [k \in {} |-> <<>>]

NoResolved == [n \in {COLOR_NAMES[i] : i \in 1..9} |-> BLACK]

----------------------------------------------------------------------------
(* ThemeSpec: the constructor, the descriptors, the shade names.           *)

(* ColorSystem.__init__: stores its arguments as given, unparsed.          *)
ColorSystem(primary, secondary, warning, error, success, accent1, accent2, background, surface) ==
    [primary |-> Str(primary), secondary |-> secondary, warning |-> warning,
     error |-> error, success |-> success, accent1 |-> accent1,
     accent2 |-> accent2, background |-> background, surface |-> surface]

(* ColorProperty.__get__, and the primary property: None for an unset      *)
(* field, else Color.parse of the stored string.                           *)
Get(obj, name) ==
    IF ~obj[name].set
    THEN [ok |-> TRUE, none |-> TRUE, color |-> BLACK]
    ELSE LET p == parse(obj[name].str)
         IN  [ok |-> p.ok, none |-> FALSE, color |-> p.color]

(* ColorProperty.__set__: a Color is stored as its css string, anything    *)
(* else as it is.                                                          *)
Set(obj, name, value) ==
    IF value.kind = "color"
    THEN [obj EXCEPT ![name] = Str(css(value.color))]
    ELSE IF value.kind = "str"
    THEN [obj EXCEPT ![name] = Str(value.str)]
    ELSE [obj EXCEPT ![name] = Unset]

(* Variant: primary with a setter that stores the string.                  *)
PrimarySetStores(obj, value) ==
    IF value.kind = "str" THEN [obj EXCEPT !["primary"] = Str(value.str)] ELSE obj

(* primary is a property without a setter: assigning it raises and stores  *)
(* nothing.                                                                *)
PrimarySet(obj, value) == obj

(* The values an assignment may pass: None, a string, a parsed Color.      *)
AssignValues(name) ==
    {[kind |-> "none", str |-> <<>>, color |-> BLACK]}
    \cup { [kind |-> "str", str |-> d, color |-> BLACK] : d \in FieldStrings(name) }
    \cup { [kind |-> "color", str |-> <<>>, color |-> parse(d).color] :
              d \in { e \in FieldStrings(name) : WellFormed(e) } }

(* ColorSystem.shades: the 63 names, base by base, darkest first.          *)
ShadeNameOf(color, shade_number) ==
    IF shade_number < 0 THEN color \o "-darken-" \o ToString(Abs(shade_number))
    ELSE IF shade_number > 0 THEN color \o "-lighten-" \o ToString(shade_number)
    ELSE color

shades ==
    [ k \in 1..(Len(COLOR_NAMES) * (2 * NUMBER_OF_SHADES + 1)) |->
        ShadeNameOf(COLOR_NAMES[((k - 1) \div (2 * NUMBER_OF_SHADES + 1)) + 1],
                    ((k - 1) % (2 * NUMBER_OF_SHADES + 1)) - NUMBER_OF_SHADES) ]

----------------------------------------------------------------------------
(* generate: fallback resolution (design.py 130-144).                      *)

FallbackName(name) ==
    CASE name \in {"secondary", "warning", "accent1"} -> "primary"
      [] name \in {"error", "success", "accent2"}     -> "secondary"
      [] OTHER                                        -> name

DefaultString(name, dark) ==
    IF name = "background"
    THEN (IF dark THEN DEFAULT_DARK_BACKGROUND ELSE DEFAULT_LIGHT_BACKGROUND)
    ELSE (IF dark THEN DEFAULT_DARK_SURFACE ELSE DEFAULT_LIGHT_SURFACE)

(* Variant: a string that does not parse is taken for an unset field.      *)
ResolveFieldLenient(obj, name, res, dark) ==
    LET got == Get(obj, name)
    IN  IF got.ok /\ ~got.none THEN [ok |-> TRUE, color |-> got.color]
        ELSE IF name \in {"background", "surface"}
        THEN [ok |-> TRUE, color |-> parse(DefaultString(name, dark)).color]
        ELSE IF name = "primary" THEN [ok |-> TRUE, color |-> BLACK]
        ELSE [ok |-> TRUE, color |-> res[FallbackName(name)]]

(* One line of the resolution: self.<name> or <fallback>. res holds the    *)
(* locals assigned so far.                                                 *)
ResolveField(obj, name, res, dark) ==
    LET got == Get(obj, name)
    IN  IF ~got.ok THEN [ok |-> FALSE, color |-> BLACK]
        ELSE IF ~got.none THEN [ok |-> TRUE, color |-> got.color]
        ELSE IF name \in {"background", "surface"}
        THEN [ok |-> TRUE, color |-> parse(DefaultString(name, dark)).color]
        ELSE [ok |-> TRUE, color |-> res[FallbackName(name)]]

----------------------------------------------------------------------------
(* generate: shade expansion (design.py 146-203).                          *)

(* luminosity_range: the seven (suffix, luminosity delta) pairs.           *)
ShadeLabel(n) ==
    (IF n < 0 THEN "-darken" ELSE IF n > 0 THEN "-lighten" ELSE "")
    \o (IF n # 0 THEN "-" \o ToString(Abs(n)) ELSE "")

(* Variant: the delta loses its sign.                                      *)
LuminosityDeltaUnsigned(n, spread) == RScale(Abs(n), RDivide(spread, <<2, 1>>))

LuminosityDelta(n, spread) == RScale(n, RDivide(spread, <<2, 1>>))

luminosity_range(spread) ==
    [ i \in 1..(2 * NUMBER_OF_SHADES + 1) |->
        << ShadeLabel(i - NUMBER_OF_SHADES - 1),
           LuminosityDelta(i - NUMBER_OF_SHADES - 1, spread) >> ]

(* Variant: every name is dark-tinted in dark mode.                        *)
is_dark_shade_any_name(dark, name) == dark

is_dark_shade(dark, name) == dark /\ name \in DARK_SHADES

(* Variant: the spread is compressed for every name in dark mode.          *)
EffectiveSpreadAllNames(dark, name, luminosity_spread) ==
    IF dark THEN RDivide(luminosity_spread, <<3, 2>>) ELSE luminosity_spread

(* Variant: the spread is never compressed.                                *)
EffectiveSpreadNominal(dark, name, luminosity_spread) == luminosity_spread

EffectiveSpread(dark, name, luminosity_spread) ==
    IF is_dark_shade(dark, name)
    THEN RDivide(luminosity_spread, <<3, 2>>)
    ELSE luminosity_spread

(* Variant: the blend toward white is stored unclamped.                    *)
DarkShadeUnclamped(background, color, spread, luminosity_delta) ==
    LET dark_background == blend(background, color, <<12, 100>>)
    IN  blend(dark_background, WHITE, RAdd(spread, luminosity_delta))

(* Variant: the blend ratio is the delta alone.                            *)
DarkShadeDeltaOnly(background, color, spread, luminosity_delta) ==
    LET dark_background == blend(background, color, <<12, 100>>)
    IN  clamped(blend(dark_background, WHITE, luminosity_delta))

DarkShade(background, color, spread, luminosity_delta) ==
    LET dark_background == blend(background, color, <<12, 100>>)
    IN  clamped(blend(dark_background, WHITE, RAdd(spread, luminosity_delta)))

PlainShade(color, luminosity_delta) == lighten(color, luminosity_delta)

ShadeColor(dark, name, color, background, spread, luminosity_delta) ==
    IF is_dark_shade(dark, name)
    THEN DarkShade(background, color, spread, luminosity_delta)
    ELSE PlainShade(color, luminosity_delta)

(* Variant: another offset of the fade ratio.                              *)
FadeRatioLow(fade) == RAdd(RScale(fade, <<1, 10>>), <<5, 100>>)

FadeRatio(fade) == RAdd(RScale(fade, <<1, 10>>), <<15, 100>>)

TextColor(shade_color, text_alpha, fade) ==
    LET text_color == get_contrast_text(shade_color, text_alpha)
    IN  IF fade > 0 THEN blend(text_color, shade_color, FadeRatio(fade))
        ELSE text_color

(* Variant: the fade index is left out of the name.                        *)
OnNameNoIndex(name, shade_name, fade) ==
    IF fade > 0 THEN "text-" \o name \o shade_name \o "-fade"
    ELSE "text-" \o name \o shade_name

OnName(name, shade_name, fade) ==
    IF fade > 0 THEN "text-" \o name \o shade_name \o "-fade-" \o ToString(fade)
    ELSE "text-" \o name \o shade_name

Fades == <<0, 1, 2>>

(* The assignments colors[...] = ... of one pass of the outer loop, in     *)
(* program order: for each of the seven shades its entry, then one text    *)
(* entry for each fade.                                                    *)
NameEntries(dark, name, color, background, luminosity_spread, text_alpha) ==
    LET spread == EffectiveSpread(dark, name, luminosity_spread)
        range  == luminosity_range(spread)
        per    == Len(Fades) + 1
        shadeOf(i) == ShadeColor(dark, name, color, background, spread, range[i][2])
    IN  [ m \in 1..(Len(range) * per) |->
            LET i == ((m - 1) \div per) + 1
                j == (m - 1) % per
            IN  IF j = 0
                THEN << name \o range[i][1], hex(shadeOf(i)) >>
                ELSE << OnName(name, range[i][1], Fades[j]),
                        hex(TextColor(shadeOf(i), text_alpha, Fades[j])) >> ]

(* A dict store: a later assignment to the same key replaces the earlier.  *)
RECURSIVE StoreAll(_, _)
StoreAll(d, entries) ==
    IF entries = <<>> THEN d
    ELSE StoreAll((Head(entries)[1] :> Head(entries)[2]) @@ d, Tail(entries))

----------------------------------------------------------------------------
(* The state machine. A ThemeSpec is constructed with the arguments the    *)
(* sets above give (success, error and accent1 left at their default None; *)
(* success is given a value by assignment only).                           *)

Init ==
    /\ \E primary \in PrimaryStrings :
       \E secondary \in FieldValues("secondary") :
       \E warning \in FieldValues("warning") :
       \E accent2 \in FieldValues("accent2") :
       \E background \in FieldValues("background") :
       \E surface \in FieldValues("surface") :
          fields = ColorSystem(primary, secondary, warning, Unset, Unset, Unset,
                               accent2, background, surface)
    /\ pc = "idle"
    /\ args = NoArgs
    /\ idx = 0
    /\ resolved = NoResolved
    /\ colors = NoColors
    /\ raised = "none"

(* A field read through its descriptor.                                    *)
Read(name) ==
    /\ pc = "idle"
    /\ raised' = IF Get(fields, name).ok THEN "none" ELSE "ParseFailure"
    /\ UNCHANGED <<fields, pc, args, idx, resolved, colors>>

(* obj.<name> = value for one of the eight descriptor fields.              *)
Assign(name, value) ==
    /\ pc = "idle"
    /\ fields' = Set(fields, name, value)
    /\ raised' = "none"
    /\ UNCHANGED <<pc, args, idx, resolved, colors>>

(* obj.primary = value.                                                    *)
AssignPrimary(value) ==
    /\ pc = "idle"
    /\ fields' = PrimarySet(fields, value)
    /\ raised' = "AttributeError"
    /\ UNCHANGED <<pc, args, idx, resolved, colors>>

(* Iterating obj.shades.                                                   *)
ReadShades ==
    /\ pc = "idle"
    /\ Len(shades) > 0
    /\ raised' = "none"
    /\ UNCHANGED <<fields, pc, args, idx, resolved, colors>>

(* generate(dark, luminosity_spread, text_alpha) is entered.               *)
Call(dark, luminosity_spread, text_alpha) ==
    /\ pc = "idle"
    /\ pc' = "resolving"
    /\ args' = [dark |-> dark, luminosity_spread |-> luminosity_spread,
                text_alpha |-> text_alpha]
    /\ idx' = 1
    /\ raised' = "none"
    /\ UNCHANGED <<fields, resolved, colors>>

(* One of the nine reads of lines 130-144; after the last, colors = {}.    *)
ResolveStep ==
    /\ pc = "resolving"
    /\ LET name == READ_ORDER[idx]
           r == ResolveField(fields, name, resolved, args.dark)
       IN  IF ~r.ok
           THEN /\ pc' = "failed"
                /\ raised' = "ParseFailure"
                /\ UNCHANGED <<idx, resolved>>
           ELSE /\ resolved' = [resolved EXCEPT ![name] = r.color]
                /\ pc' = IF idx = Len(READ_ORDER) THEN "expanding" ELSE "resolving"
                /\ idx' = IF idx = Len(READ_ORDER) THEN 1 ELSE idx + 1
                /\ UNCHANGED raised
    /\ UNCHANGED <<fields, args, colors>>

(* One pass of "for name, color in COLORS"; after the last, return colors. *)
ExpandStep ==
    /\ pc = "expanding"
    /\ LET name == COLORS[idx]
       IN  colors' = StoreAll(colors,
                        NameEntries(args.dark, name, resolved[name],
                                    resolved["background"],
                                    args.luminosity_spread, args.text_alpha))
    /\ pc' = IF idx = Len(COLORS) THEN "returned" ELSE "expanding"
    /\ idx' = IF idx = Len(COLORS) THEN idx ELSE idx + 1
    /\ UNCHANGED <<fields, args, resolved, raised>>

(* The caller is done with the returned mapping, or with the exception.    *)
Release ==
    /\ pc \in {"returned", "failed"}
    /\ pc' = "idle"
    /\ args' = NoArgs
    /\ idx' = 0
    /\ resolved' = NoResolved
    /\ colors' = NoColors
    /\ UNCHANGED <<fields, raised>>

Next ==
    \/ \E name \in OPTIONAL_FIELDS \cup {"primary"} : Read(name)
    \/ \E name \in OPTIONAL_FIELDS : \E value \in AssignValues(name) : Assign(name, value)
    \/ \E value \in AssignValues("secondary") : AssignPrimary(value)
    \/ ReadShades
    \/ \E dark \in BOOLEAN : \E s \in Spreads : \E a \in Alphas : Call(dark, s, a)
    \/ ResolveStep
    \/ ExpandStep
    \/ Release

Spec == Init /\ [][Next]_vars

----------------------------------------------------------------------------
(* Vocabulary of the properties.                                           *)

Points == (-NUMBER_OF_SHADES)..NUMBER_OF_SHADES

BaseNames == {COLOR_NAMES[i] : i \in 1..Len(COLOR_NAMES)}

ShadeNames == {shades[k] : k \in 1..Len(shades)}

TextKeys(n) == {"text-" \o n, "text-" \o n \o "-fade-1", "text-" \o n \o "-fade-2"}

ExpectedKeys == UNION { {n} \cup TextKeys(n) : n \in ShadeNames }

AnyMalformed ==
    \E f \in DOMAIN fields : fields[f].set /\ ~WellFormed(fields[f].str)

OnlyPrimary == \A f \in OPTIONAL_FIELDS : ~fields[f].set

(* The nine reads of the resolution, in order, for well-formed fields.     *)
RECURSIVE ResolveFrom(_, _, _, _)
ResolveFrom(obj, dark, i, res) ==
    IF i > Len(READ_ORDER) THEN res
    ELSE ResolveFrom(obj, dark, i + 1,
            [res EXCEPT ![READ_ORDER[i]] =
                ResolveField(obj, READ_ORDER[i], res, dark).color])

ResolveAll(obj, dark) == ResolveFrom(obj, dark, 1, NoResolved)

(* The entries generate stores for one name.                               *)
EntriesOf(dark, name, color, background) ==
    StoreAll(NoColors,
             NameEntries(dark, name, color, background,
                         args.luminosity_spread, args.text_alpha))

(* The shade color of a name at point n as the specification states it.    *)
StatedShade(name, n) ==
    LET s == args.luminosity_spread
        color == resolved[name]
    IN  IF args.dark /\ name \in {"primary", "secondary"}
        THEN LET e == RDivide(s, <<3, 2>>)
                 anchor == blend(resolved["background"], color, <<12, 100>>)
             IN  clamped(blend(anchor, WHITE,
                               RAdd(e, RScale(n, RDivide(e, <<2, 1>>)))))
        ELSE lighten(color, RScale(n, RDivide(s, <<2, 1>>)))

Anchor(name) == blend(resolved["background"], resolved[name], <<12, 100>>)

DarkTinted(name) == args.dark /\ name \in {"primary", "secondary"}

EntryLightness(name, n) == lightness(parse(colors[ShadeNameOf(name, n)]).color)

----------------------------------------------------------------------------
(* C1: whenever every field parses, generate does not fail, and the        *)
(* mapping it returns has exactly the 252 distinct keys n, text-n,         *)
(* text-n-fade-1, text-n-fade-2 for the 63 names n of shades, each with a  *)
(* color value.                                                            *)
C1_Completeness ==
    /\ (~AnyMalformed => pc # "failed")
    /\ (pc = "returned" =>
          /\ Cardinality(ShadeNames) = 63
          /\ DOMAIN colors = ExpectedKeys
          /\ Cardinality(DOMAIN colors) = 252
          /\ \A k \in DOMAIN colors : Len(colors[k]) = 6)

C1_Witness ==
    /\ pc = "returned"
    /\ args.dark
    /\ fields["secondary"].set
    /\ "text-accent2-lighten-3-fade-2" \in DOMAIN colors

C3_NoPartialPalette ==
    /\ (AnyMalformed => pc \notin {"expanding", "returned"})
    /\ (pc = "resolving" => colors = NoColors)
    /\ (pc = "failed" =>
          AnyMalformed /\ colors = NoColors /\ raised = "ParseFailure")
    /\ (pc = "returned" => DOMAIN colors = ExpectedKeys)

C3_Witness ==
    /\ pc = "failed"
    /\ idx = Len(READ_ORDER)
    /\ fields["surface"].set
    /\ WellFormed(fields["primary"].str)
    /\ colors = NoColors

C5_StrictlyIncreasing ==
    pc = "returned" =>
        \A name \in BaseNames :
            ~DarkTinted(name) =>
                \A n \in Points \ {NUMBER_OF_SHADES} :
                    EntryLightness(name, n) < EntryLightness(name, n + 1)

(* C5, amended: for every name that is not dark-tinted the lightness of    *)
(* the seven entries never decreases from darken-3 to lighten-3; with a    *)
(* spread of 0 the seven entries are the base color.                       *)
C5_NonDecreasing ==
    pc = "returned" =>
        \A name \in BaseNames :
            ~DarkTinted(name) =>
                /\ \A n \in Points \ {NUMBER_OF_SHADES} :
                      EntryLightness(name, n) <= EntryLightness(name, n + 1)
                /\ (args.luminosity_spread[1] = 0 =>
                      \A n \in Points : colors[ShadeNameOf(name, n)] = hex(resolved[name]))

C5_Witness ==
    /\ pc = "returned"
    /\ args.luminosity_spread = <<15, 100>>
    /\ \A n \in Points \ {NUMBER_OF_SHADES} :
          EntryLightness("warning", n) < EntryLightness("warning", n + 1)
    /\ EntryLightness("background", 1) = EntryLightness("background", 2)

C7_PrimaryDiffers ==
    (pc = "returned" /\ args.dark) =>
        LET light == ResolveAll(fields, FALSE)
        IN  /\ \A name \in {"warning", "error", "success", "accent1", "accent2"} :
                 LET e == EntriesOf(FALSE, name, light[name], light["background"])
                 IN  \A k \in DOMAIN e : colors[k] = e[k]
            /\ colors["primary"] #
                 EntriesOf(FALSE, "primary", light["primary"], light["background"])["primary"]

(* C7, amended: with dark true, every entry of warning, error, success,    *)
(* accent1 and accent2, and of a background or surface that is set, is the *)
(* one computed with dark false; the primary entry is the dark-tinted      *)
(* blend, which may coincide with the one computed with dark false.        *)
C7_DarkOnlyTints ==
    (pc = "returned" /\ args.dark) =>
        LET light == ResolveAll(fields, FALSE)
        IN  /\ \A name \in {"warning", "error", "success", "accent1", "accent2"} :
                 LET e == EntriesOf(FALSE, name, light[name], light["background"])
                 IN  \A k \in DOMAIN e : colors[k] = e[k]
            /\ \A name \in {"background", "surface"} :
                 fields[name].set =>
                    LET e == EntriesOf(FALSE, name, light[name], light["background"])
                    IN  \A k \in DOMAIN e : colors[k] = e[k]
            /\ colors["primary"] =
                 hex(clamped(blend(Anchor("primary"), WHITE,
                                   RDivide(args.luminosity_spread, <<3, 2>>))))

C7_Witness ==
    /\ pc = "returned"
    /\ args.dark
    /\ fields["warning"].set
    /\ fields["background"].set
    /\ colors["primary"] #
         EntriesOf(FALSE, "primary", ResolveAll(fields, FALSE)["primary"],
                   ResolveAll(fields, FALSE)["background"])["primary"]

(* C8: the entry of every name at every point n is the stated shade: for   *)
(* primary and secondary in dark mode, with e = s / 1.5,                   *)
(* clamp(blend(blend(background, color, 0.12), WHITE, e + n * e / 2));     *)
(* otherwise lighten(color, n * s / 2).                                    *)
C8_ShadeFormula ==
    pc = "returned" =>
        \A name \in BaseNames : \A n \in Points :
            colors[ShadeNameOf(name, n)] = hex(StatedShade(name, n))

C8_Witness ==
    /\ pc = "returned"
    /\ args.dark
    /\ args.luminosity_spread = <<15, 100>>
    /\ fields["secondary"].set
    /\ colors["secondary-lighten-1"] # colors["secondary"]
    /\ colors["secondary"] # fields["secondary"].str

(* C9: text-<name><suffix> is the contrasting foreground of the shade      *)
(* color at text_alpha; text-<name><suffix>-fade-k, k = 1, 2, is that      *)
(* foreground blended toward the shade by k * 0.1 + 0.15; there is no      *)
(* fade-0 and no fade-3 entry.                                             *)
C9_TextAndFades ==
    pc = "returned" =>
        \A name \in BaseNames : \A n \in Points :
            LET c == StatedShade(name, n)
                key == "text-" \o ShadeNameOf(name, n)
                foreground == get_contrast_text(c, args.text_alpha)
            IN  /\ colors[key] = hex(foreground)
                /\ colors[key \o "-fade-1"] = hex(blend(foreground, c, <<25, 100>>))
                /\ colors[key \o "-fade-2"] = hex(blend(foreground, c, <<35, 100>>))
                /\ (key \o "-fade-0") \notin DOMAIN colors
                /\ (key \o "-fade-3") \notin DOMAIN colors

C9_Witness ==
    /\ pc = "returned"
    /\ args.text_alpha = <<9, 10>>
    /\ args.luminosity_spread = <<1, 1>>
    /\ colors["text-primary-lighten-3"] #
          hex(get_contrast_text(resolved["primary"], args.text_alpha))
    /\ colors["text-primary-fade-1"] # colors["text-primary"]
    /\ colors["text-primary-fade-2"] # colors["text-primary-fade-1"]

====
